---------------------------- MODULE Spec2Model ----------------------------
(***************************************************************************)
(* A model of aadeque.h, the array deque: a block of cap element slots     *)
(* used as a circular buffer, with the header fields cap, off and len.     *)
(*                                                                         *)
(* Every function of the header is an operator of the same name that maps  *)
(* a deque value [cap, off, len, els] to the deque value the function      *)
(* leaves behind; els is the block, a function on the slots 0..cap-1.      *)
(* The actions are the calls a program can make on its two handles a, b.   *)
(*                                                                         *)
(* A slot that holds no element of the deque holds an undefined value, as  *)
(* the header says of the elements that create and make_space_* add: the   *)
(* state keeps UNDEF in it, so that whatever reads such a slot reads a     *)
(* value that equals no element.                                           *)
(***************************************************************************)
EXTENDS Integers, Sequences, FiniteSets, TLC

VARIABLES
    a,                  \* the deque behind the handle a, or NULL
    b,                  \* the deque behind a second handle b, or NULL
    allocated_bytes,    \* the bytes the instrumented allocator has handed out
    pc,                 \* "run", or "exit" once the process has terminated;
                        \* in LoopSpec the place of the call in its code
    reallocs,           \* the reallocations of the run of insertions that
                        \* InsertSpec follows
    arg                 \* the argument n or mincap of the call that
                        \* LoopSpec follows

vars == <<a, b, allocated_bytes, pc, reallocs, arg>>

---------------------------------------------------------------------------
(* Bounds of the model.                                                    *)

\* AADEQUE_SIZE_T is an unsigned integer type of SizeBits bits.
SizeBits == 6
\* No call of the model takes a deque beyond this length.
MaxLen == 5
\* reserve and compact_to are called with len + n and mincap up to this
\* number.
MaxNeed == 9
\* The operand of append and prepend built by from_array has at most
\* this many elements.
MaxOperand == 2

\* The number of insertions of a run of InsertSpec.
MaxInsert == 20

\* The element values.  The code never inspects an element, so two values
\* tell every misplaced element from the expected one.
Val == {1, 2}

---------------------------------------------------------------------------
(* Program constants and the machine's arithmetic.                         *)

AADEQUE_MIN_CAPACITY == 4

\* The content of a slot nobody has written: an indeterminate value, equal
\* to no element value.
UNDEF == -1

\* No deque behind the handle.
NULL == [null |-> TRUE]

SIZE_MOD == 2 ^ SizeBits

\* A value of type AADEQUE_SIZE_T: arithmetic is modulo 2^SizeBits.
U(x) == x % SIZE_MOD

\* The slot k of a block, indeterminate outside of the block.
Rd(els, k) == IF k \in DOMAIN els THEN els[k] ELSE UNDEF

\* memcpy(&els[dst], &els[src], n * sizeof(AADEQUE_VALUE_T)) on the slots
\* of the block; the slots outside of the block are not part of els.
Memcpy(els, dst, src, n) ==
    [k \in DOMAIN els |->
        IF k >= dst /\ k < dst + n THEN Rd(els, src + (k - dst)) ELSE els[k]]

\* memcpy reads or writes a slot that is not in the block of size slots.
MemcpyOutside(size, dst, src, n) ==
    n > 0 /\ (dst + n > size \/ src + n > size)

\* realloc to cap slots: the common prefix is kept, new slots are
\* indeterminate.
Realloc(els, cap) == [k \in 0..(cap - 1) |-> Rd(els, k)]

---------------------------------------------------------------------------
(* The functions of aadeque.h.                                             *)

aadeque_idx(d, i) ==
    LET idx == U(d.off + i)
    IN  IF idx >= d.cap THEN U(idx - d.cap) ELSE idx

aadeque_create(len) ==
    LET cap == IF len < AADEQUE_MIN_CAPACITY THEN AADEQUE_MIN_CAPACITY ELSE len
    IN  [cap |-> cap, off |-> 0, len |-> len,
         els |-> [k \in 0..(cap - 1) |-> UNDEF]]

aadeque_create_empty == aadeque_create(0)

aadeque_len(d) == d.len

aadeque_get(d, i) == Rd(d.els, aadeque_idx(d, i))

\* a->els[pos] = value; a store outside of the block changes no slot of it.
StoreSlot(d, pos, value) ==
    IF pos \in DOMAIN d.els
    THEN [d EXCEPT !.els = [@ EXCEPT ![pos] = value]]
    ELSE d

aadeque_set(d, i, value) == StoreSlot(d, aadeque_idx(d, i), value)

aadeque_clone(d) == d

\* A from_array that leaves the last element of the array out; the round
\* trip of from_array tells it from aadeque_from_array.
from_array_short(array, n) ==
    LET d == aadeque_create(n)
    IN  [d EXCEPT !.els = [k \in DOMAIN d.els |->
                              IF k < n - 1 THEN array[k + 1] ELSE d.els[k]]]

\* array is a sequence of n values, array[1] the first.
aadeque_from_array(array, n) ==
    LET d == aadeque_create(n)
    IN  [d EXCEPT !.els = [k \in DOMAIN d.els |->
                              IF k < n THEN array[k + 1] ELSE d.els[k]]]

\* The logical contents get(0), ..., get(len-1) as a sequence.
Contents(d) == [i \in 1..d.len |-> aadeque_get(d, i - 1)]

aadeque_eq_array(d, array, n) ==
    /\ d.len = n
    /\ \A i \in 0..(n - 1) : aadeque_get(d, i) = array[i + 1]

\* A capacity that grows to what is needed and no further.
reserve_cap_exact(cap, need) == need

\* The do-while loop of aadeque_reserve: the capacity after doubling until
\* it is at least need.  A capacity that has wrapped to 0 stays 0.
RECURSIVE reserve_cap(_, _)
reserve_cap(cap, need) ==
    LET c == U(cap * 2)
    IN  IF c < need /\ c # 0 THEN reserve_cap(c, need) ELSE c

\* A reserve that grows the block and leaves a wrapped content where it
\* was; the contents after reserve tell it from aadeque_reserve.
reserve_in_place(d, n) ==
    IF d.cap < U(d.len + n)
    THEN LET cap == reserve_cap(d.cap, U(d.len + n))
         IN  [d EXCEPT !.cap = cap, !.els = Realloc(d.els, cap)]
    ELSE d

\* aadeque_reserve: the capacity, the block and the offset after the call.
aadeque_reserve(d, n) ==
    IF d.cap < U(d.len + n)
    THEN LET oldcap == d.cap
             cap    == reserve_cap(oldcap, U(d.len + n))
             els    == Realloc(d.els, cap)
         IN  IF U(d.off + d.len) > oldcap
             THEN \* It warped around before: the first part of the content
                  \* is copied to the end of the grown block.
                  [d EXCEPT !.cap = cap,
                            !.els = Memcpy(els, U(d.off + cap - oldcap), d.off,
                                           U(cap - oldcap)),
                            !.off = U(d.off + cap - oldcap)]
             ELSE [d EXCEPT !.cap = cap, !.els = els]
    ELSE d

\* The memcpy of aadeque_reserve touches a slot outside of the grown block.
reserve_outside(d, n) ==
    /\ d.cap < U(d.len + n)
    /\ U(d.off + d.len) > d.cap
    /\ LET cap == reserve_cap(d.cap, U(d.len + n))
       IN  MemcpyOutside(cap, U(d.off + cap - d.cap), d.off, U(cap - d.cap))

\* The do-while loop of aadeque_compact_to: the capacity after halving
\* while it is at least doublemincap and above the minimum capacity.
RECURSIVE compact_cap(_, _)
compact_cap(cap, doublemincap) ==
    LET c == cap \div 2
    IN  IF c >= doublemincap /\ c > AADEQUE_MIN_CAPACITY
        THEN compact_cap(c, doublemincap)
        ELSE c

\* A compaction that moves nothing; the contents after compact_to tell it
\* from compact_move.
compact_in_place(d, oldcap, cap) == [d EXCEPT !.cap = cap]

\* A compaction that moves every content that does not fit below the new
\* capacity to offset 0, straddling or not; the offset after compact_to
\* tells it from compact_move.
compact_move_to_front(d, oldcap, cap) ==
    IF U(d.off + d.len) > oldcap
    THEN [d EXCEPT !.cap = cap,
                   !.els = Memcpy(d.els, U(d.off + cap - oldcap), d.off,
                                  U(oldcap - d.off)),
                   !.off = U(d.off + cap - oldcap)]
    ELSE IF U(d.off + d.len) > cap
    THEN [d EXCEPT !.cap = cap,
                   !.els = Memcpy(d.els, 0, d.off, d.len),
                   !.off = 0]
    ELSE [d EXCEPT !.cap = cap]

\* The block and the offset of aadeque_compact_to before the realloc, for
\* the capacity cap the loop has chosen.
compact_move(d, oldcap, cap) ==
    IF U(d.off + d.len) > oldcap
    THEN \* It warped around already: the first part moves to within the
         \* new boundaries.
         [d EXCEPT !.cap = cap,
                   !.els = Memcpy(d.els, U(d.off + cap - oldcap), d.off,
                                  U(oldcap - d.off)),
                   !.off = U(d.off + cap - oldcap)]
    ELSE IF d.off >= cap
    THEN \* The whole content is outside, in one piece: moved to offset 0.
         [d EXCEPT !.cap = cap,
                   !.els = Memcpy(d.els, 0, d.off, d.len),
                   !.off = 0]
    ELSE IF U(d.off + d.len) > cap
    THEN \* It overflows the new cap: made to warp.
         [d EXCEPT !.cap = cap,
                   !.els = Memcpy(d.els, 0, cap, U(d.off + d.len - cap))]
    ELSE \* The whole content is in the first part: nothing to move.
         [d EXCEPT !.cap = cap]

aadeque_compact_to(d, mincap) ==
    LET doublemincap == U(mincap * 2)
    IN  IF d.cap >= doublemincap /\ d.cap > AADEQUE_MIN_CAPACITY
        THEN LET cap == compact_cap(d.cap, doublemincap)
                 m   == compact_move(d, d.cap, cap)
             IN  [m EXCEPT !.els = Realloc(m.els, cap)]
        ELSE d

\* A memcpy of aadeque_compact_to touches a slot outside of the block,
\* which has d.cap slots until the realloc that follows the copy.
compact_outside(d, mincap) ==
    LET doublemincap == U(mincap * 2)
    IN  /\ d.cap >= doublemincap /\ d.cap > AADEQUE_MIN_CAPACITY
        /\ LET oldcap == d.cap
               cap    == compact_cap(d.cap, doublemincap)
           IN  IF U(d.off + d.len) > oldcap
               THEN MemcpyOutside(oldcap, U(d.off + cap - oldcap), d.off,
                                  U(oldcap - d.off))
               ELSE IF d.off >= cap
               THEN MemcpyOutside(oldcap, 0, d.off, d.len)
               ELSE IF U(d.off + d.len) > cap
               THEN MemcpyOutside(oldcap, 0, cap, U(d.off + d.len - cap))
               ELSE FALSE

\* A compact_some that shrinks the block as soon as half of it is unused;
\* an insertion after a removal, or a removal after an insertion, that
\* resizes again tells it from aadeque_compact_some.
compact_some_at_half(d) == aadeque_compact_to(d, d.len)

aadeque_compact_some(d) == aadeque_compact_to(d, U(d.len * 2))

aadeque_make_space_after(d, n) ==
    LET r == aadeque_reserve(d, n)
    IN  [r EXCEPT !.len = U(r.len + n)]

\* A make_space_before whose offset does not wrap around the block; the
\* bound on the offset tells it from aadeque_make_space_before.
make_space_before_unwrapped(d, n) ==
    LET r == aadeque_reserve(d, n)
    IN  [r EXCEPT !.off = U(r.off - n),
                  !.len = U(r.len + n)]

aadeque_make_space_before(d, n) ==
    LET r == aadeque_reserve(d, n)
    IN  [r EXCEPT !.off = aadeque_idx(r, U(r.cap - n)),
                  !.len = U(r.len + n)]

\* A crop that takes offset for a slot of the block; the contents after
\* shift tell it from aadeque_crop.
crop_at_slot(d, offset, length) ==
    aadeque_compact_some([d EXCEPT !.off = offset, !.len = length])

\* Built without AADEQUE_CLEAR_UNUSED_MEM, as test.c is.
aadeque_crop(d, offset, length) ==
    aadeque_compact_some([d EXCEPT !.off = aadeque_idx(d, offset),
                                   !.len = length])

\* The bytes memset writes.
ZERO == 0

\* memset(&els[dst], 0, n * sizeof(AADEQUE_VALUE_T)) on the slots of the
\* block.
Memset(els, dst, n) ==
    [k \in DOMAIN els |-> IF k >= dst /\ k < dst + n THEN ZERO ELSE els[k]]

\* aadeque_clear: the n elements from index i on are set to zero bytes, in
\* two parts when the slot of i is above the slot of i + n - 1.
aadeque_clear(d, i, n) ==
    IF aadeque_idx(d, i) > aadeque_idx(d, U(i + n + SIZE_MOD - 1))
    THEN [d EXCEPT !.els =
             Memset(Memset(d.els, 0, aadeque_idx(d, U(n + i))),
                    aadeque_idx(d, i), U(d.cap - aadeque_idx(d, i)))]
    ELSE [d EXCEPT !.els = Memset(d.els, aadeque_idx(d, i), n)]

\* aadeque_crop built with AADEQUE_CLEAR_UNUSED_MEM.
aadeque_crop_clear_unused_mem(d, offset, length) ==
    LET c == aadeque_clear(d, U(offset + length), U(d.len - length))
    IN  aadeque_compact_some([c EXCEPT !.off = aadeque_idx(c, offset),
                                       !.len = length])

aadeque_delete_last_n(d, n) == aadeque_crop(d, 0, U(d.len - n))

\* A delete_first_n that drops the elements at the other end; the elements
\* left tell it from aadeque_delete_first_n.
delete_first_n_at_end(d, n) == aadeque_crop(d, 0, U(d.len - n))

aadeque_delete_first_n(d, n) == aadeque_crop(d, n, U(d.len - n))

aadeque_unshift(d, value) ==
    LET m == aadeque_make_space_before(d, 1)
    IN  StoreSlot(m, m.off, value)

\* The value aadeque_shift returns; the deque it leaves is shift_deque.
shift_value(d) == Rd(d.els, d.off)

shift_deque(d) == aadeque_crop(d, 1, U(d.len - 1))

aadeque_push(d, value) ==
    LET m == aadeque_make_space_after(d, 1)
    IN  StoreSlot(m, aadeque_idx(m, U(m.len - 1)), value)

\* The value aadeque_pop returns; the deque it leaves is pop_deque.
pop_value(d) == Rd(d.els, aadeque_idx(d, U(d.len - 1)))

pop_deque(d) == aadeque_crop(d, 0, U(d.len - 1))

\* The loop of aadeque_append and aadeque_prepend from j on:
\* aadeque_set(a1, i++, aadeque_get(a2, j)).
RECURSIVE copy_loop(_, _, _, _)
copy_loop(a1, a2, i, j) ==
    IF j < a2.len
    THEN copy_loop(aadeque_set(a1, i, aadeque_get(a2, j)), a2, U(i + 1), U(j + 1))
    ELSE a1

aadeque_append(a1, a2) ==
    copy_loop(aadeque_make_space_after(a1, a2.len), a2, a1.len, 0)

\* A prepend that copies to the end of the space it made; the contents
\* after prepend tell it from aadeque_prepend.
prepend_at_end(a1, a2) ==
    copy_loop(aadeque_make_space_before(a1, a2.len), a2, a1.len, 0)

aadeque_prepend(a1, a2) ==
    copy_loop(aadeque_make_space_before(a1, a2.len), a2, 0, 0)

\* The loop of aadeque_append and aadeque_prepend from j on, as the operand
\* a2 sees it: a2->len and aadeque_get(a2, j) are read, nothing of a2 is
\* written.
RECURSIVE operand_loop(_, _)
operand_loop(a2, j) ==
    IF j < a2.len THEN operand_loop(a2, U(j + 1)) ELSE a2

\* An append that moves the elements out of its operand; the operand after
\* append tells it from append_operand.
append_operand_emptied(a1, a2) == [a2 EXCEPT !.len = 0]

\* The operand a2 after aadeque_append(a1, a2).
append_operand(a1, a2) == operand_loop(a2, 0)

\* The operand a2 after aadeque_prepend(a1, a2).
prepend_operand(a1, a2) == operand_loop(a2, 0)

\* The loop of aadeque_slice from i on.
RECURSIVE slice_loop(_, _, _, _, _)
slice_loop(d, s, offset, length, i) ==
    IF i < length
    THEN slice_loop(d, aadeque_set(s, i, aadeque_get(d, U(i + offset))),
                    offset, length, U(i + 1))
    ELSE s

\* A slice that copies from the front of a whatever offset is; the
\* elements of the slice tell it from aadeque_slice.
slice_at_front(d, offset, length) ==
    slice_loop(d, aadeque_create(length), 0, length, 0)

aadeque_slice(d, offset, length) ==
    slice_loop(d, aadeque_create(length), offset, length, 0)

\* The deque a after aadeque_slice(a, offset, length): the loop reads it
\* through aadeque_get and writes nothing of it.
slice_source(d, offset, length) == d

aadeque_compact(d) == aadeque_compact_to(d, d.len)

\* The offset is reset and no slot is moved.
make_contiguous_unordered_unmoved(d) == [d EXCEPT !.off = 0]

\* aadeque_make_contiguous_unordered: when the elements wrap around, the
\* cap - off slots at the end of the block are moved down to follow the
\* off + len - cap slots at its start (memmove: the source is read whole
\* before the destination is written), and off becomes 0.
aadeque_make_contiguous_unordered(d) ==
    IF U(d.off + d.len) > d.cap
    THEN [d EXCEPT !.els = Memcpy(d.els, U(d.off + d.len - d.cap), d.off,
                                  U(d.cap - d.off)),
                   !.off = 0]
    ELSE d

\* The memmove of aadeque_make_contiguous_unordered touches a slot outside
\* of the block.
make_contiguous_outside(d) ==
    /\ U(d.off + d.len) > d.cap
    /\ MemcpyOutside(d.cap, U(d.off + d.len - d.cap), d.off, U(d.cap - d.off))

---------------------------------------------------------------------------
(* The allocator of test.c and what each function of aadeque.h asks of it. *)

\* sizeof(aadeque_t) and sizeof(AADEQUE_VALUE_T) where unsigned int has 4
\* bytes and void* has 8.
SIZEOF_AADEQUE_T == 24

SIZEOF_VALUE_T == 8

aadeque_sizeof(cap) == SIZEOF_AADEQUE_T + (cap - 1) * SIZEOF_VALUE_T

\* allocated_bytes after test_alloc, test_realloc and test_free.
test_alloc(bytes, size) == bytes + size

test_realloc(bytes, size, old_size) == bytes + size - old_size

test_free(bytes, size) == bytes - size

\* if (!a) AADEQUE_OOM(): where the program is after the allocator has
\* returned a pointer, null or not.  The default hook is exit(-1).
AADEQUE_OOM == "exit"

\* A call that goes on with the pointer it got, null or not; where the
\* program is after a failed allocation tells it from check_alloc.
check_alloc_missing(isnull) == "run"

check_alloc(isnull) == IF isnull THEN AADEQUE_OOM ELSE "run"

\* allocated_bytes after each function that calls the allocator.
create_bytes(bytes, len) ==
    test_alloc(bytes, aadeque_sizeof(aadeque_create(len).cap))

destroy_bytes(bytes, d) == test_free(bytes, aadeque_sizeof(d.cap))

clone_bytes(bytes, d) == test_alloc(bytes, aadeque_sizeof(d.cap))

\* aadeque_reserve reallocates.
reserve_reallocs(d, n) == d.cap < U(d.len + n)

\* A reserve that hands the allocator the size for the capacity it has just
\* set as the old size; the outstanding bytes tell it from reserve_bytes.
reserve_bytes_new_size(bytes, d, n) ==
    IF reserve_reallocs(d, n)
    THEN test_realloc(bytes,
                      aadeque_sizeof(reserve_cap(d.cap, U(d.len + n))),
                      aadeque_sizeof(reserve_cap(d.cap, U(d.len + n))))
    ELSE bytes

reserve_bytes(bytes, d, n) ==
    IF reserve_reallocs(d, n)
    THEN test_realloc(bytes,
                      aadeque_sizeof(reserve_cap(d.cap, U(d.len + n))),
                      aadeque_sizeof(d.cap))
    ELSE bytes

\* aadeque_compact_to reallocates.
compact_to_reallocs(d, mincap) ==
    d.cap >= U(mincap * 2) /\ d.cap > AADEQUE_MIN_CAPACITY

compact_to_bytes(bytes, d, mincap) ==
    IF compact_to_reallocs(d, mincap)
    THEN test_realloc(bytes,
                      aadeque_sizeof(compact_cap(d.cap, U(mincap * 2))),
                      aadeque_sizeof(d.cap))
    ELSE bytes

\* aadeque_crop calls aadeque_compact_some, which calls aadeque_compact_to
\* with twice the new length.
crop_bytes(bytes, d, offset, length) ==
    compact_to_bytes(bytes, [d EXCEPT !.len = length], U(length * 2))

---------------------------------------------------------------------------
(* The calls of a program that holds the handles a and b.                  *)

\* The slot k holds an element of d: aadeque_idx(d, i) = k for an i below
\* len.  aadeque_idx returns off + i or off + i - cap in the size type, so
\* the only such i are k - off and k + cap - off in the size type.
Live(d, k) ==
    LET i == U(k + SIZE_MOD - d.off)
        j == U(k + d.cap + SIZE_MOD - d.off)
    IN  \/ i < d.len /\ aadeque_idx(d, i) = k
        \/ j < d.len /\ aadeque_idx(d, j) = k

\* The deque as its user may rely on it: the slots that hold no element
\* hold undefined values.
Held(d) == [d EXCEPT !.els = [k \in DOMAIN d.els |->
                                 IF Live(d, k) THEN d.els[k] ELSE UNDEF]]

\* The arrays of at most n element values.
Arrays(n) == UNION {[1..k -> Val] : k \in 0..n}

Init ==
    /\ a = NULL
    /\ b = NULL
    /\ allocated_bytes = 0
    /\ pc = "run"
    /\ reallocs = 0
    /\ arg = 0

\* The calls on a are made while no second deque is held.
CreateEmpty ==
    /\ pc = "run"
    /\ a = NULL /\ b = NULL
    /\ a' = Held(aadeque_create_empty)
    /\ UNCHANGED b
    /\ allocated_bytes' = create_bytes(allocated_bytes, 0)
    /\ UNCHANGED <<pc, reallocs, arg>>

Create(len) ==
    /\ pc = "run"
    /\ a = NULL /\ b = NULL
    /\ a' = Held(aadeque_create(len))
    /\ UNCHANGED b
    /\ allocated_bytes' = create_bytes(allocated_bytes, len)
    /\ UNCHANGED <<pc, reallocs, arg>>

FromArray(array) ==
    /\ pc = "run"
    /\ a = NULL /\ b = NULL
    /\ a' = Held(aadeque_from_array(array, Len(array)))
    /\ UNCHANGED b
    /\ allocated_bytes' = create_bytes(allocated_bytes, Len(array))
    /\ UNCHANGED <<pc, reallocs, arg>>

Destroy ==
    /\ pc = "run"
    /\ a # NULL /\ b = NULL
    /\ a' = NULL
    /\ UNCHANGED b
    /\ allocated_bytes' = destroy_bytes(allocated_bytes, a)
    /\ UNCHANGED <<pc, reallocs, arg>>

Set(i, v) ==
    /\ pc = "run"
    /\ a # NULL /\ b = NULL
    /\ i < a.len
    /\ a' = Held(aadeque_set(a, i, v))
    /\ UNCHANGED b
    /\ UNCHANGED <<allocated_bytes, pc, reallocs, arg>>

Push(v) ==
    /\ pc = "run"
    /\ a # NULL /\ b = NULL
    /\ a.len < MaxLen
    /\ a' = Held(aadeque_push(a, v))
    /\ UNCHANGED b
    /\ allocated_bytes' = reserve_bytes(allocated_bytes, a, 1)
    /\ UNCHANGED <<pc, reallocs, arg>>

Unshift(v) ==
    /\ pc = "run"
    /\ a # NULL /\ b = NULL
    /\ a.len < MaxLen
    /\ a' = Held(aadeque_unshift(a, v))
    /\ UNCHANGED b
    /\ allocated_bytes' = reserve_bytes(allocated_bytes, a, 1)
    /\ UNCHANGED <<pc, reallocs, arg>>

Pop ==
    /\ pc = "run"
    /\ a # NULL /\ b = NULL
    /\ a.len > 0
    /\ a' = Held(pop_deque(a))
    /\ UNCHANGED b
    /\ allocated_bytes' = crop_bytes(allocated_bytes, a, 0, U(a.len - 1))
    /\ UNCHANGED <<pc, reallocs, arg>>

Shift ==
    /\ pc = "run"
    /\ a # NULL /\ b = NULL
    /\ a.len > 0
    /\ a' = Held(shift_deque(a))
    /\ UNCHANGED b
    /\ allocated_bytes' = crop_bytes(allocated_bytes, a, 1, U(a.len - 1))
    /\ UNCHANGED <<pc, reallocs, arg>>

Reserve(n) ==
    /\ pc = "run"
    /\ a # NULL /\ b = NULL
    /\ a.len + n <= MaxNeed
    /\ a' = Held(aadeque_reserve(a, n))
    /\ UNCHANGED b
    /\ allocated_bytes' = reserve_bytes(allocated_bytes, a, n)
    /\ UNCHANGED <<pc, reallocs, arg>>

CompactTo(mincap) ==
    /\ pc = "run"
    /\ a # NULL /\ b = NULL
    /\ mincap >= a.len
    /\ a' = Held(aadeque_compact_to(a, mincap))
    /\ UNCHANGED b
    /\ allocated_bytes' = compact_to_bytes(allocated_bytes, a, mincap)
    /\ UNCHANGED <<pc, reallocs, arg>>

CompactSome ==
    /\ pc = "run"
    /\ a # NULL /\ b = NULL
    /\ a' = Held(aadeque_compact_some(a))
    /\ UNCHANGED b
    /\ allocated_bytes' = compact_to_bytes(allocated_bytes, a, U(a.len * 2))
    /\ UNCHANGED <<pc, reallocs, arg>>

Compact ==
    /\ pc = "run"
    /\ a # NULL /\ b = NULL
    /\ a' = Held(aadeque_compact(a))
    /\ UNCHANGED b
    /\ allocated_bytes' = compact_to_bytes(allocated_bytes, a, a.len)
    /\ UNCHANGED <<pc, reallocs, arg>>

MakeContiguousUnordered ==
    /\ pc = "run"
    /\ a # NULL /\ b = NULL
    /\ a' = Held(aadeque_make_contiguous_unordered(a))
    /\ UNCHANGED b
    /\ UNCHANGED <<allocated_bytes, pc, reallocs, arg>>

Crop(offset, length) ==
    /\ pc = "run"
    /\ a # NULL /\ b = NULL
    /\ offset + length <= a.len
    /\ a' = Held(aadeque_crop(a, offset, length))
    /\ UNCHANGED b
    /\ allocated_bytes' = crop_bytes(allocated_bytes, a, offset, length)
    /\ UNCHANGED <<pc, reallocs, arg>>

DeleteLastN(n) ==
    /\ pc = "run"
    /\ a # NULL /\ b = NULL
    /\ n <= a.len
    /\ a' = Held(aadeque_delete_last_n(a, n))
    /\ UNCHANGED b
    /\ allocated_bytes' = crop_bytes(allocated_bytes, a, 0, U(a.len - n))
    /\ UNCHANGED <<pc, reallocs, arg>>

DeleteFirstN(n) ==
    /\ pc = "run"
    /\ a # NULL /\ b = NULL
    /\ n <= a.len
    /\ a' = Held(aadeque_delete_first_n(a, n))
    /\ UNCHANGED b
    /\ allocated_bytes' = crop_bytes(allocated_bytes, a, n, U(a.len - n))
    /\ UNCHANGED <<pc, reallocs, arg>>

\* A second deque is made, used as the operand of append and prepend, and
\* destroyed.
FromArrayB(array) ==
    /\ pc = "run"
    /\ a # NULL /\ b = NULL
    /\ b' = Held(aadeque_from_array(array, Len(array)))
    /\ UNCHANGED a
    /\ allocated_bytes' = create_bytes(allocated_bytes, Len(array))
    /\ UNCHANGED <<pc, reallocs, arg>>

Clone ==
    /\ pc = "run"
    /\ a # NULL /\ b = NULL
    /\ b' = Held(aadeque_clone(a))
    /\ UNCHANGED a
    /\ allocated_bytes' = clone_bytes(allocated_bytes, a)
    /\ UNCHANGED <<pc, reallocs, arg>>

Slice(offset, length) ==
    /\ pc = "run"
    /\ a # NULL /\ b = NULL
    /\ offset + length <= a.len
    /\ b' = Held(aadeque_slice(a, offset, length))
    /\ a' = Held(slice_source(a, offset, length))
    /\ allocated_bytes' = create_bytes(allocated_bytes, length)
    /\ UNCHANGED <<pc, reallocs, arg>>

DestroyB ==
    /\ pc = "run"
    /\ b # NULL
    /\ b' = NULL
    /\ UNCHANGED a
    /\ allocated_bytes' = destroy_bytes(allocated_bytes, b)
    /\ UNCHANGED <<pc, reallocs, arg>>

AppendCall ==
    /\ pc = "run"
    /\ a # NULL /\ b # NULL
    /\ a.len + b.len <= MaxLen
    /\ a' = Held(aadeque_append(a, b))
    /\ b' = Held(append_operand(a, b))
    /\ allocated_bytes' = reserve_bytes(allocated_bytes, a, b.len)
    /\ UNCHANGED <<pc, reallocs, arg>>

PrependCall ==
    /\ pc = "run"
    /\ a # NULL /\ b # NULL
    /\ a.len + b.len <= MaxLen
    /\ a' = Held(aadeque_prepend(a, b))
    /\ b' = Held(prepend_operand(a, b))
    /\ allocated_bytes' = reserve_bytes(allocated_bytes, a, b.len)
    /\ UNCHANGED <<pc, reallocs, arg>>

\* The allocator returns null: test_alloc and test_realloc have counted the
\* bytes, the call has no block, and the program is where the check of the
\* returned pointer takes it.  A process that has terminated holds no
\* deque.
CreateFails(len) ==
    /\ pc = "run"
    /\ a = NULL /\ b = NULL
    /\ allocated_bytes' = create_bytes(allocated_bytes, len)
    /\ pc' = check_alloc(TRUE)
    /\ a' = NULL /\ b' = NULL
    /\ UNCHANGED <<reallocs, arg>>

CloneFails ==
    /\ pc = "run"
    /\ a # NULL /\ b = NULL
    /\ allocated_bytes' = clone_bytes(allocated_bytes, a)
    /\ pc' = check_alloc(TRUE)
    /\ a' = NULL /\ b' = NULL
    /\ UNCHANGED <<reallocs, arg>>

ReserveFails(n) ==
    /\ pc = "run"
    /\ a # NULL /\ b = NULL
    /\ a.len + n <= MaxNeed
    /\ reserve_reallocs(a, n)
    /\ allocated_bytes' = reserve_bytes(allocated_bytes, a, n)
    /\ pc' = check_alloc(TRUE)
    /\ a' = NULL /\ b' = NULL
    /\ UNCHANGED <<reallocs, arg>>

CompactToFails(mincap) ==
    /\ pc = "run"
    /\ a # NULL /\ b = NULL
    /\ mincap >= a.len
    /\ compact_to_reallocs(a, mincap)
    /\ allocated_bytes' = compact_to_bytes(allocated_bytes, a, mincap)
    /\ pc' = check_alloc(TRUE)
    /\ a' = NULL /\ b' = NULL
    /\ UNCHANGED <<reallocs, arg>>

\* The calls a program may make.  What a call needs of the handles is
\* tested before its arguments are chosen.
Next ==
    \/ CreateEmpty
    \/ /\ a = NULL
       /\ \E len \in 0..MaxLen : Create(len)
    \/ /\ a = NULL
       /\ \E array \in Arrays(MaxLen) : FromArray(array)
    \/ Destroy
    \/ /\ a # NULL /\ b = NULL
       /\ \E i \in 0..(MaxLen - 1), v \in Val : Set(i, v)
    \/ /\ a # NULL /\ b = NULL
       /\ \E v \in Val : Push(v)
    \/ /\ a # NULL /\ b = NULL
       /\ \E v \in Val : Unshift(v)
    \/ Pop
    \/ Shift
    \/ /\ a # NULL /\ b = NULL
       /\ \E n \in 0..MaxNeed : Reserve(n)
    \/ /\ a # NULL /\ b = NULL
       /\ \E mincap \in 0..MaxNeed : CompactTo(mincap)
    \/ CompactSome
    \/ Compact
    \/ MakeContiguousUnordered
    \/ /\ a # NULL /\ b = NULL
       /\ \E offset \in 0..MaxLen, length \in 0..MaxLen : Crop(offset, length)
    \/ /\ a # NULL /\ b = NULL
       /\ \E n \in 0..MaxLen : DeleteLastN(n)
    \/ /\ a # NULL /\ b = NULL
       /\ \E n \in 0..MaxLen : DeleteFirstN(n)
    \/ /\ a # NULL /\ b = NULL
       /\ \E array \in Arrays(MaxOperand) : FromArrayB(array)
    \/ Clone
    \/ /\ a # NULL /\ b = NULL
       /\ \E offset \in 0..MaxLen, length \in 0..MaxLen : Slice(offset, length)
    \/ DestroyB
    \/ AppendCall
    \/ PrependCall
    \/ /\ a = NULL
       /\ \E len \in 0..MaxLen : CreateFails(len)
    \/ CloneFails
    \/ /\ a # NULL /\ b = NULL
       /\ \E n \in 0..MaxNeed : ReserveFails(n)
    \/ /\ a # NULL /\ b = NULL
       /\ \E mincap \in 0..MaxNeed : CompactToFails(mincap)

Spec == Init /\ [][Next]_vars

---------------------------------------------------------------------------
(* Single-element insertions from an empty deque, counting the calls of    *)
(* AADEQUE_REALLOC (test_push and test_unshift, up to MaxInsert elements). *)

InsertInit ==
    /\ a = Held(aadeque_create_empty)
    /\ b = NULL
    /\ allocated_bytes = create_bytes(0, 0)
    /\ pc = "run"
    /\ reallocs = 0
    /\ arg = 0

\* reserve(a, 1) in make_space_after / make_space_before calls
\* AADEQUE_REALLOC once when its condition holds, never otherwise.
realloc_calls(d, n) == IF reserve_reallocs(d, n) THEN 1 ELSE 0

InsertPush(v) ==
    /\ pc = "run"
    /\ a.len < MaxInsert
    /\ a' = Held(aadeque_push(a, v))
    /\ reallocs' = reallocs + realloc_calls(a, 1)
    /\ allocated_bytes' = reserve_bytes(allocated_bytes, a, 1)
    /\ UNCHANGED <<b, pc, arg>>

InsertUnshift(v) ==
    /\ pc = "run"
    /\ a.len < MaxInsert
    /\ a' = Held(aadeque_unshift(a, v))
    /\ reallocs' = reallocs + realloc_calls(a, 1)
    /\ allocated_bytes' = reserve_bytes(allocated_bytes, a, 1)
    /\ UNCHANGED <<b, pc, arg>>

\* The value inserted does not enter aadeque_reserve: the runs push one
\* value and unshift the other.
InsertNext ==
    \/ \E v \in {CHOOSE x \in Val : \A y \in Val : x <= y} : InsertPush(v)
    \/ \E v \in {CHOOSE x \in Val : \A y \in Val : x >= y} : InsertUnshift(v)

InsertSpec == InsertInit /\ [][InsertNext]_vars

---------------------------------------------------------------------------
(* One call of aadeque_reserve or aadeque_compact_to, statement by         *)
(* statement, with an argument anywhere in the size type: the loops that   *)
(* choose the new capacity take one step for the body and one for the     *)
(* test of each iteration.                                                 *)

\* The slots of the block: a->cap is assigned in the loop, the block is
\* resized after it.
oldcap_of(d) == Cardinality(DOMAIN d.els)

\* A deque that create and reserve have built.
LoopInit ==
    /\ \E len \in 0..MaxLen, n \in 0..MaxNeed :
           /\ len + n <= MaxNeed
           /\ a = Held(aadeque_reserve(aadeque_create(len), n))
    /\ b = NULL
    /\ allocated_bytes = aadeque_sizeof(a.cap)
    /\ pc = "run"
    /\ reallocs = 0
    /\ arg = 0

\* if (a->cap < a->len + n)
ReserveEnter(n) ==
    /\ pc = "run"
    /\ arg' = n
    /\ pc' = IF a.cap < U(a.len + n) THEN "reserve_loop" ELSE "done"
    /\ UNCHANGED <<a, b, allocated_bytes, reallocs>>

\* do { a->cap = a->cap << 1;
ReserveLoop ==
    /\ pc = "reserve_loop"
    /\ a' = [a EXCEPT !.cap = U(a.cap * 2)]
    /\ pc' = "reserve_while"
    /\ UNCHANGED <<b, allocated_bytes, reallocs, arg>>

\* } while (a->cap < a->len + n);
ReserveWhile ==
    /\ pc = "reserve_while"
    /\ pc' = IF a.cap < U(a.len + arg) THEN "reserve_loop"
                                       ELSE "reserve_realloc"
    /\ UNCHANGED <<a, b, allocated_bytes, reallocs, arg>>

\* The realloc of aadeque_reserve and the return; the content is not
\* wrapped.
ReserveRealloc ==
    /\ pc = "reserve_realloc"
    /\ a' = Held([a EXCEPT !.els = Realloc(a.els, a.cap)])
    /\ allocated_bytes' = test_realloc(allocated_bytes, aadeque_sizeof(a.cap),
                                       aadeque_sizeof(oldcap_of(a)))
    /\ pc' = "done"
    /\ UNCHANGED <<b, reallocs, arg>>

\* if (a->cap >= doublemincap && a->cap > AADEQUE_MIN_CAPACITY)
CompactEnter(mincap) ==
    /\ pc = "run"
    /\ mincap >= a.len
    /\ arg' = mincap
    /\ pc' = IF a.cap >= U(mincap * 2) /\ a.cap > AADEQUE_MIN_CAPACITY
             THEN "compact_loop" ELSE "done"
    /\ UNCHANGED <<a, b, allocated_bytes, reallocs>>

\* do { a->cap = a->cap >> 1;
CompactLoop ==
    /\ pc = "compact_loop"
    /\ a' = [a EXCEPT !.cap = a.cap \div 2]
    /\ pc' = "compact_while"
    /\ UNCHANGED <<b, allocated_bytes, reallocs, arg>>

\* } while (a->cap >= doublemincap && a->cap > AADEQUE_MIN_CAPACITY);
CompactWhile ==
    /\ pc = "compact_while"
    /\ pc' = IF a.cap >= U(arg * 2) /\ a.cap > AADEQUE_MIN_CAPACITY
             THEN "compact_loop" ELSE "compact_realloc"
    /\ UNCHANGED <<a, b, allocated_bytes, reallocs, arg>>

\* The move of the content, the realloc of aadeque_compact_to and the
\* return.
CompactRealloc ==
    /\ pc = "compact_realloc"
    /\ a' = LET oldcap == oldcap_of(a)
                m == compact_move([a EXCEPT !.cap = oldcap], oldcap, a.cap)
            IN  Held([m EXCEPT !.els = Realloc(m.els, a.cap)])
    /\ allocated_bytes' = test_realloc(allocated_bytes, aadeque_sizeof(a.cap),
                                       aadeque_sizeof(oldcap_of(a)))
    /\ pc' = "done"
    /\ UNCHANGED <<b, reallocs, arg>>

LoopNext ==
    \/ \E n \in 0..(SIZE_MOD - 1) : ReserveEnter(n)
    \/ ReserveLoop
    \/ ReserveWhile
    \/ ReserveRealloc
    \/ \E mincap \in 0..(SIZE_MOD - 1) : CompactEnter(mincap)
    \/ CompactLoop
    \/ CompactWhile
    \/ CompactRealloc

\* The process keeps running: a call that can take a step takes it.
LoopSpec == LoopInit /\ [][LoopNext]_vars /\ WF_vars(LoopNext)

---------------------------------------------------------------------------
(* The properties.                                                         *)

\* The deques the program holds.
Deques == {d \in {a, b} : d # NULL}

IsPowerOfTwo(n) == \E k \in 0..SizeBits : n = 2 ^ k

\* The smallest power of two that is >= n and >= AADEQUE_MIN_CAPACITY.
RECURSIVE RoundUp(_, _)
RoundUp(c, n) == IF c >= n THEN c ELSE RoundUp(2 * c, n)

SmallestCapacity(n) == RoundUp(AADEQUE_MIN_CAPACITY, n)

Wrapped(d) == d.off + d.len > d.cap

\* Every element of d has been given a value.
AllDefined(d) == \A i \in 1..d.len : Contents(d)[i] \in Val

\* C1: in every reachable state the capacity of every deque is a power of
\* two.
C1_CapacityIsPowerOfTwo == \A d \in Deques : IsPowerOfTwo(d.cap)

\* C2: in every reachable state the capacity of every deque is at least
\* AADEQUE_MIN_CAPACITY.
C2_CapacityAtLeastMin == \A d \in Deques : d.cap >= AADEQUE_MIN_CAPACITY

\* C3: create(len) and from_array(array, len) return a deque of length len,
\* offset 0 and the smallest power-of-two capacity >= len and >= the
\* minimum; from_array of 5 elements has capacity 8, and delete_first_n(2)
\* then leaves cap = 8, len = 3, off = 2.
C3_CreateRoundsUp ==
    [][ /\ \A len \in 0..MaxLen :
              Create(len) =>
                  /\ a'.len = len
                  /\ a'.off = 0
                  /\ a'.cap = SmallestCapacity(len)
        /\ \A array \in Arrays(MaxLen) :
              FromArray(array) =>
                  /\ a'.len = Len(array)
                  /\ a'.off = 0
                  /\ a'.cap = SmallestCapacity(Len(array))
                  /\ Len(array) = 5 =>
                        LET d == aadeque_delete_first_n(a', 2)
                        IN  a'.cap = 8 /\ d.cap = 8 /\ d.len = 3 /\ d.off = 2
      ]_vars

\* C4: in every reachable state 0 <= len <= cap and off < cap, for every
\* deque.
C4_LengthAndOffsetInCapacity ==
    \A d \in Deques : 0 <= d.len /\ d.len <= d.cap /\ d.off < d.cap

\* C4 witness: a deque that push or unshift has grown to capacity 8, with
\* its five elements wrapped around the end of the block.
C4_Witness ==
    a # NULL /\ a.cap = 8 /\ a.len = 5 /\ Wrapped(a) /\ AllDefined(a)

\* C7: for every index i of the size type, in range or not, the index
\* translator returns a slot of the block.
C7_IdxInBlock ==
    \A d \in Deques : \A i \in 0..(SIZE_MOD - 1) : aadeque_idx(d, i) < d.cap

\* C5: from every reachable deque, push(v) appends v to the logical
\* contents, unshift(v) puts v in front of them, pop removes and returns
\* the last element and shift removes and returns the first one, whatever
\* the layout and whether or not the block grows or shrinks in the call.
\* (The deque is examined where the calls on it are made, while no second
\* deque is held; every deque the program reaches occurs in such a state.)
C5_DequeLaw ==
    a # NULL /\ b = NULL =>
        /\ \A v \in Val :
              /\ Contents(aadeque_push(a, v)) = Append(Contents(a), v)
              /\ Contents(aadeque_unshift(a, v)) = <<v>> \o Contents(a)
        /\ a.len > 0 =>
              /\ Contents(pop_deque(a)) = SubSeq(Contents(a), 1, a.len - 1)
              /\ pop_value(a) = Contents(a)[a.len]
              /\ Contents(shift_deque(a)) = Tail(Contents(a))
              /\ shift_value(a) = Contents(a)[1]

\* C5 witness: a full block of four elements wrapped around its end, which
\* push grows to 8 slots with the elements kept in order.
C5_Witness ==
    /\ a # NULL /\ b = NULL
    /\ a.cap = 4 /\ a.len = 4 /\ Wrapped(a)
    /\ Contents(a) = <<2, 1, 1, 2>>
    /\ aadeque_push(a, 1).cap = 8
    /\ Contents(aadeque_push(a, 1)) = <<2, 1, 1, 2, 1>>

\* C6: from_array(S, n) yields a deque of length n whose get(i) is S[i] for
\* every i < n.
C6_FromArrayRoundTrip ==
    [][ a = NULL =>
           \A array \in Arrays(MaxLen) :
               FromArray(array) =>
                   /\ aadeque_len(a') = Len(array)
                   /\ \A i \in 0..(Len(array) - 1) :
                         aadeque_get(a', i) = array[i + 1]
                   /\ aadeque_eq_array(a', array, Len(array))
      ]_vars

\* C6 witness: the deque from_array makes of the array 1, 2, 2, 1, 2.
C6_Witness ==
    /\ a # NULL
    /\ a.off = 0 /\ a.cap = 5
    /\ Contents(a) = <<1, 2, 2, 1, 2>>

\* The capacity cap doubled the least number of times that makes it >= need.
MinDoubled(cap, need) ==
    LET S == {c \in {cap * 2 ^ k : k \in 0..SizeBits} : c >= need}
    IN  CHOOSE c \in S : \A x \in S : c <= x

\* create_empty, push(4), push(5), unshift(3), unshift(2), unshift(1): the
\* deque of test_grow_warping.
GrowWarping ==
    aadeque_unshift(aadeque_unshift(aadeque_unshift(
        aadeque_push(aadeque_push(aadeque_create_empty, 4), 5), 3), 2), 1)

\* C8: on every reachable deque, reserve(n) leaves len and the logical
\* contents unchanged and ends with the old capacity doubled the least
\* number of times that gives cap >= len + n; a region wrapped under the
\* old capacity has its offset increased by newcap - oldcap and its piece
\* at the low addresses left in place, any other region keeps its offset.
\* The deque of test_grow_warping holds 1, 2, 3, 4, 5 and is wrapped.
C8_ReserveKeepsContents ==
    /\ a # NULL /\ b = NULL =>
          \A n \in 0..(MaxNeed - a.len) :
              LET r == aadeque_reserve(a, n)
              IN  /\ r.len = a.len
                  /\ Contents(r) = Contents(a)
                  /\ r.cap >= a.len + n
                  /\ r.cap = MinDoubled(a.cap, a.len + n)
                  /\ IF Wrapped(a)
                     THEN /\ r.off = a.off + (r.cap - a.cap)
                          /\ \A k \in 0..(a.off + a.len - a.cap - 1) :
                                r.els[k] = a.els[k]
                     ELSE r.off = a.off
    /\ Contents(GrowWarping) = <<1, 2, 3, 4, 5>>
    /\ Wrapped(GrowWarping)

\* C8 witness: five elements wrapped around the end of a block of 8 slots,
\* which reserve(4) grows to 16 slots and moves the offset of by 8.
C8_Witness ==
    /\ a # NULL
    /\ a.cap = 8 /\ a.len = 5 /\ Wrapped(a)
    /\ AllDefined(a)
    /\ aadeque_reserve(a, 4).cap = 16
    /\ aadeque_reserve(a, 4).off = a.off + 8

\* The deques test_shrink_case_1, 2 and 3 compact.
ShrinkCase1 ==
    aadeque_compact(aadeque_delete_last_n(
        aadeque_unshift(aadeque_from_array(<<2, 3, 4, 5>>, 4), 1), 2))

ShrinkCase2 ==
    aadeque_compact(aadeque_delete_first_n(
        aadeque_from_array(<<1, 2, 3, 4, 5, 6, 7, 8>>, 8), 5))

ShrinkCase3 ==
    aadeque_compact(aadeque_delete_first_n(
        aadeque_from_array(<<1, 2, 3, 4, 5>>, 5), 2))

\* C9: on every reachable deque, compact_to(mincap) with mincap >= len,
\* compact() and compact_some() leave len and the logical contents
\* unchanged, whatever the layout and however often the capacity is halved;
\* the deques of the three shrink tests hold 1, 2, 3 and 6, 7, 8 and
\* 3, 4, 5 after compact().
C9_CompactKeepsContents ==
    /\ a # NULL /\ b = NULL =>
          /\ \A mincap \in a.len..MaxNeed :
                LET c == aadeque_compact_to(a, mincap)
                IN  c.len = a.len /\ Contents(c) = Contents(a)
          /\ aadeque_compact(a).len = a.len
          /\ Contents(aadeque_compact(a)) = Contents(a)
          /\ aadeque_compact_some(a).len = a.len
          /\ Contents(aadeque_compact_some(a)) = Contents(a)
    /\ Contents(ShrinkCase1) = <<1, 2, 3>>
    /\ Contents(ShrinkCase2) = <<6, 7, 8>>
    /\ Contents(ShrinkCase3) = <<3, 4, 5>>

\* C9 witness: three elements wrapped around the end of a block of 16
\* slots, which compact() halves twice.
C9_Witness ==
    /\ a # NULL
    /\ a.cap = 16 /\ a.len = 3 /\ Wrapped(a)
    /\ AllDefined(a)
    /\ aadeque_compact(a).cap = 4

\* The deques test_append and test_prepend build.
TestAppend ==
    aadeque_append(aadeque_from_array(<<1, 2, 3>>, 3),
                   aadeque_from_array(<<4, 5>>, 2))

TestPrepend ==
    aadeque_prepend(aadeque_from_array(<<1, 2, 3>>, 3),
                    aadeque_from_array(<<4, 5>>, 2))

\* C10: append(a1, a2) makes the contents of a1 the old contents followed
\* by those of a2, prepend(a1, a2) makes them those of a2 followed by the
\* old contents, and the length is len(a1) + len(a2), whatever the layout
\* of a1 and whether or not its block grows.
C10_AppendPrepend ==
    [][ /\ AppendCall =>
              /\ a'.len = a.len + b.len
              /\ Contents(a') = Contents(a) \o Contents(b)
        /\ PrependCall =>
              /\ a'.len = a.len + b.len
              /\ Contents(a') = Contents(b) \o Contents(a)
        /\ Contents(TestAppend) = <<1, 2, 3, 4, 5>>
        /\ Contents(TestPrepend) = <<4, 5, 1, 2, 3>>
      ]_vars

\* C10 witness: a wrapped deque in a grown block that ends with the two
\* elements of the operand still held.
C10_Witness ==
    /\ a # NULL /\ b # NULL
    /\ a.cap = 8 /\ Wrapped(a) /\ a.len = 5
    /\ b.len = 2 /\ AllDefined(a)
    /\ SubSeq(Contents(a), 4, 5) = Contents(b)

\* The operands of test_append and test_prepend after the call.
TestAppendOperand ==
    append_operand(aadeque_from_array(<<1, 2, 3>>, 3),
                   aadeque_from_array(<<4, 5>>, 2))

TestPrependOperand ==
    prepend_operand(aadeque_from_array(<<1, 2, 3>>, 3),
                    aadeque_from_array(<<4, 5>>, 2))

TestSlice == aadeque_slice(aadeque_from_array(<<1, 2, 3, 4, 5, 6, 7>>, 7), 2, 4)

TestDeleteLastN ==
    aadeque_delete_last_n(aadeque_from_array(<<1, 2, 3, 4, 5>>, 5), 3)

TestDeleteFirstN ==
    aadeque_delete_first_n(aadeque_from_array(<<1, 2, 3, 4, 5>>, 5), 3)

\* C13: on every reachable deque, crop(offset, length) with
\* offset + length <= len leaves the elements slice(offset, length) returns,
\* in their order; delete_first_n(n) leaves the old elements n..len-1 and
\* delete_last_n(n) the old elements 0..len-n-1, whatever the layout and
\* whether or not the call compacts the block; the two tests leave 1, 2
\* and 4, 5.
C13_CropIsSlice ==
    /\ (pc = "run" /\ a # NULL /\ b = NULL) =>
          /\ \A offset \in 0..a.len :
                \A length \in 0..(a.len - offset) :
                    LET c == aadeque_crop(a, offset, length)
                    IN  /\ c.len = length
                        /\ Contents(c) = Contents(aadeque_slice(a, offset, length))
                        /\ Contents(c) = SubSeq(Contents(a), offset + 1, offset + length)
          /\ \A n \in 0..a.len :
                /\ Contents(aadeque_delete_first_n(a, n))
                      = SubSeq(Contents(a), n + 1, a.len)
                /\ Contents(aadeque_delete_last_n(a, n))
                      = SubSeq(Contents(a), 1, a.len - n)
    /\ aadeque_eq_array(TestDeleteLastN, <<1, 2>>, 2)
    /\ aadeque_eq_array(TestDeleteFirstN, <<4, 5>>, 2)

\* C13 witness: five elements wrapped around the end of a block of 16
\* slots, which crop(2, 2) cuts to two elements in a block of 4 slots.
C13_Witness ==
    /\ a # NULL /\ b = NULL
    /\ a.cap = 16 /\ a.len = 5 /\ Wrapped(a)
    /\ Contents(a) = <<1, 1, 2, 1, 2>>
    /\ aadeque_crop(a, 2, 2).cap = 4
    /\ Contents(aadeque_crop(a, 2, 2)) = <<2, 1>>

\* The claimed capacity after a removal from capacity c that leaves l
\* elements: halved, not below the minimum, if l is at most a quarter of
\* c and c is above the minimum; c if l is more than a quarter of c.
ShrunkAsClaimed(c, l, cap) ==
    /\ (4 * l <= c /\ c > AADEQUE_MIN_CAPACITY) =>
          (cap = c \div 2 /\ cap >= AADEQUE_MIN_CAPACITY)
    /\ 4 * l > c => cap = c

\* C14: every removal (pop, shift, crop, delete_first_n, delete_last_n) from
\* a reachable deque of capacity C that leaves L elements ends with the
\* capacity C/2, not below the minimum, if 4L <= C and C is above the
\* minimum, and with the capacity C if 4L > C.
C14_ShrinkThreshold ==
    (pc = "run" /\ a # NULL /\ b = NULL) =>
        /\ a.len > 0 =>
              /\ ShrunkAsClaimed(a.cap, a.len - 1, pop_deque(a).cap)
              /\ ShrunkAsClaimed(a.cap, a.len - 1, shift_deque(a).cap)
        /\ \A offset \in 0..a.len :
              \A length \in 0..(a.len - offset) :
                  ShrunkAsClaimed(a.cap, length, aadeque_crop(a, offset, length).cap)
        /\ \A n \in 0..a.len :
              /\ ShrunkAsClaimed(a.cap, a.len - n, aadeque_delete_first_n(a, n).cap)
              /\ ShrunkAsClaimed(a.cap, a.len - n, aadeque_delete_last_n(a, n).cap)

\* The removal of one element from d does not change the capacity.
RemovalKeepsCapacity(d) ==
    pop_deque(d).cap = d.cap /\ shift_deque(d).cap = d.cap

\* The insertion of one element into d does not change the capacity.
InsertionKeepsCapacity(d) ==
    \A v \in Val : aadeque_push(d, v).cap = d.cap /\ aadeque_unshift(d, v).cap = d.cap

\* C15: from every reachable deque, if push or unshift changes the capacity
\* then the pop or shift that follows at once does not change it, and if
\* pop or shift changes the capacity then the push or unshift that follows
\* at once does not change it.
C15_NoResizeThrashing ==
    (pc = "run" /\ a # NULL /\ b = NULL) =>
        /\ \A v \in Val :
              \A ins \in {aadeque_push(a, v), aadeque_unshift(a, v)} :
                  ins.cap # a.cap => RemovalKeepsCapacity(ins)
        /\ a.len > 0 =>
              \A rem \in {pop_deque(a), shift_deque(a)} :
                  rem.cap # a.cap => InsertionKeepsCapacity(rem)

\* C15 witness: three elements wrapped around the end of a block of 8
\* slots: pop halves the block, and the push that follows leaves it at 4
\* slots.
C15_Witness ==
    /\ a # NULL /\ b = NULL
    /\ a.cap = 8 /\ a.len = 3 /\ Wrapped(a) /\ AllDefined(a)
    /\ pop_deque(a).cap = 4
    /\ aadeque_push(pop_deque(a), 1).cap = 4

\* The size of the block behind a handle, 0 if there is none.
BlockSize(d) == IF d = NULL THEN 0 ELSE aadeque_sizeof(d.cap)

\* C16: in every reachable state of the running program the outstanding
\* bytes of the instrumented allocator are the sizes of the blocks of the
\* deques held, each the size for its capacity, and 0 when every deque has
\* been destroyed; so every old size the calls hand to the allocator is the
\* size of the block held.
C16_MemoryAccounting ==
    pc = "run" =>
        /\ allocated_bytes = BlockSize(a) + BlockSize(b)
        /\ (a = NULL /\ b = NULL) => allocated_bytes = 0

\* C16 witness: a deque whose block has grown to 8 slots and a second deque
\* in a block of 4 slots, with the bytes of both outstanding.
C16_Witness ==
    /\ a # NULL /\ b # NULL
    /\ a.cap = 8 /\ b.cap = 4 /\ Wrapped(a)
    /\ allocated_bytes = aadeque_sizeof(8) + aadeque_sizeof(4)

\* C17: when the allocator returns null in create, clone, reserve or
\* compact_to, the call does nothing but invoke the out-of-memory hook,
\* which by default ends the process: no such call returns to a running
\* program.
C17_OomHook ==
    [][ (a' = NULL /\ b' = NULL) =>
           (  (\/ \E len \in 0..MaxLen : CreateFails(len)
               \/ CloneFails
               \/ \E n \in 0..MaxNeed : ReserveFails(n)
               \/ \E mincap \in 0..MaxNeed : CompactToFails(mincap))
            => pc' = "exit" )
      ]_vars

\* C17 witness: the process has ended in a reserve that asked for a block
\* of 16 slots.
C17_Witness ==
    /\ pc = "exit"
    /\ a = NULL /\ b = NULL
    /\ allocated_bytes = aadeque_sizeof(16)

\* C18: compact() on every reachable deque ends with the smallest
\* capacity that is a power of two, >= len and >= the minimum, and a
\* second compact() changes nothing.
C18_CompactIsMinimal ==
    (pc = "run" /\ a # NULL /\ b = NULL) =>
        LET c == aadeque_compact(a)
        IN  /\ c.cap = SmallestCapacity(a.len)
            /\ aadeque_compact(c) = c

\* The number of times v occurs in the sequence s.
Count(s, v) == Cardinality({i \in 1..Len(s) : s[i] = v})

\* The len slots of the block of d from slot off on.
PhysicalRun(d) == [i \in 1..d.len |-> Rd(d.els, d.off + i - 1)]

\* C19: make_contiguous_unordered() on every reachable deque leaves len
\* and cap unchanged and the elements in one run of slots (off + len <=
\* cap, off = 0 if they wrapped) that holds each value as many times as
\* the contents before the call did; a deque that does not wrap is left
\* as it was.
C19_MakeContiguousUnordered ==
    (pc = "run" /\ a # NULL /\ b = NULL) =>
        LET m == aadeque_make_contiguous_unordered(a)
        IN  /\ m.len = a.len /\ m.cap = a.cap
            /\ m.off + m.len <= m.cap
            /\ Wrapped(a) => m.off = 0
            /\ \A v \in Val \cup {UNDEF} :
                   Count(PhysicalRun(m), v) = Count(Contents(a), v)
            /\ ~Wrapped(a) => m = a

\* A deque of three given elements or more that wraps, and whose elements
\* the call leaves in another order.
C19_Witness ==
    /\ pc = "run" /\ a # NULL /\ b = NULL
    /\ Wrapped(a) /\ a.len >= 3 /\ AllDefined(a)
    /\ aadeque_make_contiguous_unordered(a).off = 0
    /\ PhysicalRun(aadeque_make_contiguous_unordered(a)) # Contents(a)

\* The least k with 2^k >= n.
CeilLog2(n) == CHOOSE k \in 0..SizeBits :
                   2 ^ k >= n /\ \A j \in 0..(k - 1) : 2 ^ j < n

\* C20: in a run of single-element insertions from an empty deque, a step
\* reallocates only when it takes len from cap to cap + 1, and after N >= 2
\* insertions at most ceil(log2(N)) reallocations have happened.
C20_AmortizedResize ==
    [][ /\ reallocs' # reallocs => (a.len = a.cap /\ a'.len = a.cap + 1)
        /\ a'.len >= 2 => reallocs' <= CeilLog2(a'.len)
      ]_vars

\* Seventeen insertions, both kinds among them, have grown the block
\* three times: 4 to 8, 8 to 16 and 16 to 32.
C20_Witness ==
    /\ a.len = 17 /\ a.cap = 32 /\ reallocs = 3
    /\ Wrapped(a)

\* C21: on every reachable deque, no call within its preconditions
\* touches a slot outside of the block: the slot of every element is below
\* cap, and the block copies of reserve(n), of compact_to(mincap) with
\* mincap >= len and of make_contiguous_unordered stay inside the block of
\* that moment.
C21_SlotsInsideBlock ==
    (pc = "run" /\ a # NULL /\ b = NULL) =>
        /\ \A i \in 0..(a.len - 1) : aadeque_idx(a, i) < a.cap
        /\ \A n \in 0..(MaxNeed - a.len) : ~reserve_outside(a, n)
        /\ \A mincap \in a.len..MaxNeed : ~compact_outside(a, mincap)
        /\ ~make_contiguous_outside(a)

\* The offset the claim gives for a deque d of capacity oldcap that is
\* shrunk to newcap, by the four layouts it names.
ClaimedOffset(d, oldcap, newcap) ==
    IF d.off + d.len > oldcap THEN d.off - (oldcap - newcap)
    ELSE IF d.off >= newcap THEN 0
    ELSE d.off

\* The number of the four layouts that d is in.
LayoutsOf(d, oldcap, newcap) ==
    Cardinality({k \in 1..4 :
        \/ k = 1 /\ d.off + d.len > oldcap
        \/ k = 2 /\ d.off + d.len <= oldcap /\ d.off >= newcap
        \/ k = 3 /\ d.off + d.len <= oldcap
                 /\ d.off < newcap /\ newcap < d.off + d.len
        \/ k = 4 /\ d.off + d.len <= newcap})

\* C22: on every reachable deque, a compact_to(mincap) with mincap >= len
\* that shrinks the block finds the deque in exactly one of the four
\* layouts and leaves the offset the claim gives for it; a straddling
\* content wraps under the new capacity, and a content below the new
\* capacity keeps every slot.  test_shrink_case_1 and 2 compact capacity
\* 8, len 3 at offset 7 to capacity 4, offset 3 and at offset 5 to
\* capacity 4, offset 0.
C22_CompactLayouts ==
    /\ (pc = "run" /\ a # NULL /\ b = NULL) =>
          \A mincap \in a.len..MaxNeed :
              compact_to_reallocs(a, mincap) =>
                  LET c == aadeque_compact_to(a, mincap)
                  IN  /\ LayoutsOf(a, a.cap, c.cap) = 1
                      /\ c.off = ClaimedOffset(a, a.cap, c.cap)
                      /\ (a.off + a.len <= a.cap /\ a.off < c.cap
                             /\ c.cap < a.off + a.len) => Wrapped(c)
                      /\ a.off + a.len <= c.cap =>
                             \A k \in 0..(c.cap - 1) : c.els[k] = a.els[k]
    /\ ShrinkCase1.cap = 4 /\ ShrinkCase1.off = 3 /\ ShrinkCase1.len = 3
    /\ ShrinkCase2.cap = 4 /\ ShrinkCase2.off = 0 /\ ShrinkCase2.len = 3

\* Three given elements at offset 7 of a block of 8 slots, wrapped, which
\* compact() moves to offset 3 of a block of 4 slots.
C22_Witness ==
    /\ pc = "run" /\ a # NULL /\ b = NULL
    /\ a.cap = 8 /\ a.len = 3 /\ a.off = 7 /\ AllDefined(a)
    /\ aadeque_compact(a).cap = 4
    /\ aadeque_compact(a).off = 3

\* C23: every call of reserve(n) and of compact_to(mincap), for every n
\* and mincap of the size type, returns: the loop that doubles the
\* capacity and the loop that halves it come to an end.
C23_Terminates == <>(pc = "done")

\* The slots of the elements of d that crop(offset, length) discards.
DiscardedSlots(d, offset, length) ==
    {aadeque_idx(d, i) :
        i \in (0..(offset - 1)) \cup ((offset + length)..(d.len - 1))}

\* C24: in the build that clears unused memory, crop(offset, length) on
\* every reachable deque, with offset + length <= len, leaves zero in
\* every slot of a discarded element that is still in the block and holds
\* no element, and leaves the elements offset..offset+length-1 as they
\* were.
C24_CropScrubs ==
    (pc = "run" /\ a # NULL /\ b = NULL) =>
        \A offset \in 0..a.len :
            \A length \in 0..(a.len - offset) :
                LET c == aadeque_crop_clear_unused_mem(a, offset, length)
                IN  /\ \A k \in DiscardedSlots(a, offset, length) :
                           (k < c.cap /\ ~Live(c, k)) => c.els[k] = ZERO
                    /\ Contents(c)
                          = SubSeq(Contents(a), offset + 1, offset + length)

=============================================================================
